---- MODULE Spec2Model ----
(***************************************************************************)
(* Model of src/cli_oai.js: the question -> SQL -> rows -> insights turn   *)
(* loop (main/promptUser) and the three remote-call wrappers generateSQL,  *)
(* executeQuery and generateResponse.  JavaScript strings are TLA+ strings;*)
(* a nullable value is the empty set (null) or a singleton set.            *)
(***************************************************************************)
EXTENDS Integers, Sequences, FiniteSets, TLC

\* ------------------------------------------------------------------ bounds
MaxPieces == 2       \* pieces concatenated into one model output
MaxMsgPieces == 2    \* pieces concatenated into one driver error message
MaxRows == 6         \* rows in a result set

\* ------------------------------------------------------- nullable values
Null == {}
Some(v) == {v}
Val(x) == CHOOSE v \in x : TRUE

\* undefined: neither null nor a string; a set no Some(v) equals.
Undefined == {"", "undefined"}

\* JavaScript truthiness of a nullable string: null, undefined and "" are
\* falsy.
Truthy(x) == x # Null /\ x # Undefined /\ x # Some("")

\* String(x), as console.log and template literals write a value.
String(x) ==
    IF x = Null THEN "null" ELSE IF x = Undefined THEN "undefined" ELSE Val(x)

\* ------------------------------------------------------ String.prototype
\* A TLA+ string literal cannot hold the backquote character (U+0060): the
\* model writes it "~", a character none of the modelled inputs otherwise use.
Backquote == "~"
Fence == Backquote \o Backquote \o Backquote
FenceSql == Fence \o "sql"

CharAt(s, i) == SubSeq(s, i, i)

\* The characters String.prototype.trim removes (those the inputs use).
IsSpace(c) == c \in {" ", "\n", "\t"}

RECURSIVE TrimStart(_)
TrimStart(s) ==
    IF Len(s) > 0 /\ IsSpace(CharAt(s, 1))
    THEN TrimStart(SubSeq(s, 2, Len(s)))
    ELSE s

RECURSIVE TrimEnd(_)
TrimEnd(s) ==
    IF Len(s) > 0 /\ IsSpace(CharAt(s, Len(s)))
    THEN TrimEnd(SubSeq(s, 1, Len(s) - 1))
    ELSE s

Trim(s) == TrimEnd(TrimStart(s))

StartsWith(s, p) == Len(s) >= Len(p) /\ SubSeq(s, 1, Len(p)) = p

\* First index at which p occurs in s, 0 when it does not occur.
IndexOf(s, p) ==
    LET hits == {i \in 1..(Len(s) - Len(p) + 1) : SubSeq(s, i, i + Len(p) - 1) = p}
    IN  IF hits = {} THEN 0 ELSE CHOOSE i \in hits : \A j \in hits : i <= j

Includes(s, p) == IndexOf(s, p) # 0

\* s.replace(p, ""): the first occurrence only (p a string pattern).
RemoveFirst(s, p) ==
    LET i == IndexOf(s, p)
    IN  IF i = 0 THEN s
        ELSE SubSeq(s, 1, i - 1) \o SubSeq(s, i + Len(p), Len(s))

\* s.replace(/p/g, ""): every non-overlapping occurrence, left to right.
RECURSIVE RemoveAll(_, _)
RemoveAll(s, p) ==
    LET i == IndexOf(s, p)
    IN  IF i = 0 THEN s
        ELSE SubSeq(s, 1, i - 1) \o RemoveAll(SubSeq(s, i + Len(p), Len(s)), p)

LowerChar(c) ==
    CASE c = "S" -> "s" [] c = "Y" -> "y" [] c = "N" -> "n" [] c = "T" -> "t"
      [] c = "A" -> "a" [] c = "X" -> "x" [] c = "E" -> "e" [] c = "I" -> "i"
      [] c = "Q" -> "q" [] c = "U" -> "u"
      [] OTHER -> c

RECURSIVE ToLowerCase(_)
ToLowerCase(s) ==
    IF Len(s) = 0 THEN s
    ELSE LowerChar(CharAt(s, 1)) \o ToLowerCase(SubSeq(s, 2, Len(s)))

RECURSIVE Concat(_)
Concat(ps) == IF Len(ps) = 0 THEN "" ELSE Head(ps) \o Concat(Tail(ps))

PieceSeqs(P, n) == UNION {[1..k -> P] : k \in 0..n}

\* Array.prototype.join over strings.
RECURSIVE Join(_, _)
Join(xs, sep) ==
    IF Len(xs) = 0 THEN ""
    ELSE IF Len(xs) = 1 THEN Head(xs)
    ELSE Head(xs) \o sep \o Join(Tail(xs), sep)

\* Array.prototype.slice(0, n).
Slice(xs, n) == SubSeq(xs, 1, IF Len(xs) < n THEN Len(xs) ELSE n)

\* ---------------------------------------------------------------- inputs
\* What the operator may type at the question prompt.
Prompts == {"exit", "EXIT", "Quit", "", "  ", "most recent blocks?"}

\* What the operator may type at the export prompt.
Answers == {"y", "Y", "n", "yes", ""}

\* Model outputs: every concatenation of up to MaxPieces of these pieces (the
\* statement comes with white space before it, for trim() to remove).
ContentPieces == {Fence, FenceSql \o " SELECT 1", " SELECT 1"}
Contents == {Concat(ps) : ps \in PieceSeqs(ContentPieces, MaxPieces)}

\* Messages of errors thrown by the language-model client.
UpstreamErrors == {"429 rate limit", "Connection error."}

\* The frames of error.stack (line 525), whatever they are.
StackTrace == " <stack trace>"

\* The time stamps exportToCSV puts in a file name (lines 385-386).
Timestamps == {"2026-10-30T09-44-34-388Z", "2026-10-30T09-44-35-215Z"}

\* Messages of errors raised by dbClient.end().
EndErrors == {"Connection terminated unexpectedly"}

\* The chat endpoint's answer to one call: a thrown error, a response with no
\* choice, a choice whose message has no content field, or a choice with
\* content (null, or a string).
GenerationResponses ==
    {[kind |-> "throw", message |-> m] : m \in UpstreamErrors}
      \cup {[kind |-> "nochoice"], [kind |-> "nocontent"]}
      \cup {[kind |-> "ok", content |-> Null]}
      \cup {[kind |-> "ok", content |-> Some(c)] : c \in Contents}

SummaryResponses ==
    {[kind |-> "throw", message |-> m] : m \in UpstreamErrors}
      \cup {[kind |-> "nochoice"], [kind |-> "nocontent"]}
      \cup {[kind |-> "ok", content |-> Null]}
      \cup {[kind |-> "ok", content |-> Some(c)] : c \in {"", "Blocks are recent."}}

\* Driver error messages, the empty message of `new Error()` included.
MsgPieces == {"syn", "SYN", "tax", "TaX", "at "}
DbErrors == {Concat(ps) : ps \in PieceSeqs(MsgPieces, MaxMsgPieces)}

\* Column values: null, a string, a number, or an object (the empty one).
NullValue == [t |-> "null"]
UndefinedValue == [t |-> "undefined"]
EmptyObject == [t |-> "object"]
StringValue(v) == [t |-> "string", v |-> v]
NumberValue(v) == [t |-> "number", v |-> v]

\* The value of column `name` in the i-th row the database holds.
ColumnValue(name, i) ==
    IF name = "number" THEN NumberValue(i)
    ELSE CASE i = 2 -> NullValue
           [] i = 3 -> StringValue("0x0123456789abcdef0123456789abcdef")
           [] i = 4 -> EmptyObject
           [] OTHER -> StringValue("0x" \o ToString(i))

\* A row object: its properties in the order of the fields.
Row(i, fields) ==
    [k \in 1..Len(fields) |->
        [name |-> fields[k].name, value |-> ColumnValue(fields[k].name, i)]]

\* Result sets: the first n rows, for the fields selected.
RowSets(fields) == {[i \in 1..n |-> Row(i, fields)] : n \in 0..MaxRows}
FieldLists == {<<[name |-> "hash"], [name |-> "number"]>>}

\* `${value}` (lines 174, 490): the text of a value in a template literal.
TemplateText(value) ==
    CASE value.t = "null" -> "null"
      [] value.t = "undefined" -> "undefined"
      [] value.t = "string" -> value.v
      [] value.t = "number" -> ToString(value.v)
      [] OTHER -> "[object Object]"

\* result.rowCount of a reply with n rows.  The program never compares it
\* with the rows: the driver may report their number, another number, null,
\* or leave the property out.
RowCounts(n) == {NumberValue(n), NumberValue(n + 1), NullValue, UndefinedValue}

\* result.rowCount of a reply without rows: a number of affected rows, or
\* null for a statement that affects none.
CommandRowCounts == {NumberValue(k) : k \in 0..2} \cup {NullValue}

\* The database's answer to one statement: {fields, rows, rowCount} for a
\* row-returning statement, {rowCount} for any other, or a thrown error.
DbResponses ==
    UNION {UNION {{[kind |-> "rows", rows |-> rs, fields |-> fs, rowCount |-> c] :
                      c \in RowCounts(Len(rs))} : rs \in RowSets(fs)} :
              fs \in FieldLists}
      \cup {[kind |-> "command", rowCount |-> c] : c \in CommandRowCounts}
      \cup {[kind |-> "throw", message |-> m] : m \in DbErrors}

\* TypeError messages of V8 for a property read on null or undefined.
TypeErrorMessage(of, prop) ==
    "Cannot read properties of " \o of \o " (reading '" \o prop \o "')"

\* --------------------------------------------------------- executeQuery
executeQuery(resp) ==
    IF resp.kind = "throw"
    THEN [rows |-> Null, error |-> Some(resp.message)]
    ELSE IF resp.kind = "rows"
    THEN [rows |-> Some(resp.rows),
          error |-> Null,
          columnNames |-> [i \in 1..Len(resp.fields) |-> resp.fields[i].name],
          rowCount |-> resp.rowCount]
    ELSE [rows |-> Some(<<>>),
          error |-> Null,
          affectedRows |-> resp.rowCount,
          message |-> "Query executed successfully. Rows affected: "
                        \o TemplateText(resp.rowCount)]

\* ----------------------------------------------------------- generateSQL
\* Lines 231-235: the markdown code block removal.
removeCodeBlocks(sql) ==
    IF StartsWith(sql, FenceSql)
    THEN Trim(RemoveFirst(RemoveFirst(sql, FenceSql), Fence))
    ELSE IF StartsWith(sql, Fence)
    THEN Trim(RemoveAll(sql, Fence))
    ELSE sql

\* The message of the error caught at line 238, or Null when none is thrown
\* while the response is read (line 228).
generateSQLThrown(resp) ==
    CASE resp.kind = "throw" -> Some(resp.message)
      [] resp.kind = "nochoice" -> Some(TypeErrorMessage("undefined", "message"))
      [] resp.kind = "nocontent" -> Some(TypeErrorMessage("undefined", "trim"))
      [] resp.kind = "ok" /\ resp.content = Null ->
            Some(TypeErrorMessage("null", "trim"))
      [] OTHER -> Null

generateSQL(resp) ==
    LET thrown == generateSQLThrown(resp)
    IN  IF thrown # Null
        THEN [sql |-> Null, error |-> Some("Error generating SQL: " \o Val(thrown))]
        ELSE [sql |-> Some(removeCodeBlocks(Trim(Val(resp.content)))), error |-> Null]

\* ------------------------------------------------------ generateResponse
\* JSON.stringify of a column value (strings that need no escaping).
JSONValue(value) ==
    CASE value.t = "null" -> "null"
      [] value.t = "string" -> "\"" \o value.v \o "\""
      [] value.t = "number" -> ToString(value.v)
      [] OTHER -> "{}"

\* JSON.stringify(row, null, 2) inside an array: properties at depth 2.
JSONObject(row) ==
    IF Len(row) = 0 THEN "{}"
    ELSE "{\n"
           \o Join([k \in 1..Len(row) |->
                      "    \"" \o row[k].name \o "\": " \o JSONValue(row[k].value)],
                   ",\n")
           \o "\n  }"

\* JSON.stringify(rows, null, 2) of an array of row objects.
JSONStringify(rows) ==
    IF Len(rows) = 0 THEN "[]"
    ELSE "[\n"
           \o Join([i \in 1..Len(rows) |-> "  " \o JSONObject(rows[i])], ",\n")
           \o "\n]"

\* Lines 254-258: what the summary prompt says about the results.
resultSample(results) ==
    IF results # Null /\ Val(results).rows # Null /\ Len(Val(Val(results).rows)) > 0
    THEN JSONStringify(Slice(Val(Val(results).rows), 5))
    ELSE "No results found"

rowCount(results) ==
    IF results # Null /\ Val(results).rows # Null
    THEN Len(Val(Val(results).rows))
    ELSE 0

\* A property read: undefined (here Null) when the object lacks the field.
columnNamesOf(r) == IF "columnNames" \in DOMAIN r THEN Some(r.columnNames) ELSE Null

\* `${queryResult.rowCount}` (line 490).
rowCountText(r) ==
    IF "rowCount" \in DOMAIN r THEN TemplateText(r.rowCount) ELSE "undefined"

colNames(results) ==
    IF results # Null /\ columnNamesOf(Val(results)) # Null
    THEN Join(Val(columnNamesOf(Val(results))), ", ")
    ELSE ""

\* Lines 278-285: the user message of the summary call.
userMessage(prompt, sql, results) ==
    "User question: " \o prompt
      \o "\nSQL query used: " \o String(sql)
      \o "\nNumber of rows returned: " \o ToString(rowCount(results))
      \o "\nColumn names: " \o colNames(results)
      \o "\nSample of results (first 5 rows):\n" \o resultSample(results)
      \o "\n\nPlease provide a natural language explanation of these results, "
      \o "focusing on insights that answer the user's question."

\* Lines 288-301: the call and what is made of its outcome.
generateResponse(resp) ==
    CASE resp.kind = "throw" ->
            [response |-> Null,
             error |-> Some("Error generating response: " \o resp.message)]
      [] resp.kind = "nochoice" ->
            [response |-> Null,
             error |-> Some("Error generating response: "
                              \o TypeErrorMessage("undefined", "message"))]
      [] resp.kind = "nocontent" -> [response |-> Undefined, error |-> Null]
      [] OTHER -> [response |-> resp.content, error |-> Null]

\* ------------------------------------------------------ formatResultTable
\* row[col] (line 352): undefined when the row has no such property.
Property(row, col) ==
    IF \E k \in 1..Len(row) : row[k].name = col
    THEN row[CHOOSE k \in 1..Len(row) : row[k].name = col].value
    ELSE UndefinedValue

\* String(value) of a value that is neither null nor an object.
ValueText(value) ==
    CASE value.t = "string" -> value.v
      [] value.t = "number" -> ToString(value.v)
      [] OTHER -> "undefined"

\* Lines 352-355: the text of one cell.
cellText(value) ==
    IF value.t = "null" THEN "NULL"
    ELSE IF value.t = "object" THEN JSONValue(value)
    ELSE SubSeq(ValueText(value), 1,
                IF Len(ValueText(value)) < 30 THEN Len(ValueText(value)) ELSE 30)
           \o (IF Len(ValueText(value)) > 30 THEN "..." ELSE "")

\* Lines 338-361.  The table of cli-table3 is written as its lines: the head,
\* then one line per row (the first 10), cells separated by " | ".
formatResultTable(rows, columnNames) ==
    IF rows = Null \/ Len(Val(rows)) = 0 \/ columnNames = Null
    THEN "No results"
    ELSE LET shown == Slice(Val(rows), 10)
             cols == Val(columnNames)
         IN  Join(cols, " | ") \o "\n"
               \o Join([i \in 1..Len(shown) |->
                          Join([k \in 1..Len(cols) |->
                                  cellText(Property(shown[i], cols[k]))], " | ")],
                       "\n")

\* ------------------------------------------------- promptUser's branches
\* Line 440.
isExit(prompt) == ToLowerCase(prompt) = "exit" \/ ToLowerCase(prompt) = "quit"

\* Line 448.
isBlank(prompt) == Trim(prompt) = ""

\* Variants of afterGenerateSQL: the error check dropped; a failure that ends
\* the session; a failure that calls generateSQL again.
afterGenerateSQL_unchecked(r) == "Executing"
afterGenerateSQL_fatal(r) == IF Truthy(r.error) THEN "Closed" ELSE "Executing"
afterGenerateSQL_retry(r) == IF Truthy(r.error) THEN "Generating" ELSE "Executing"

\* Lines 458-462 and 471: where the turn goes once generateSQL has returned.
afterGenerateSQL(r) == IF Truthy(r.error) THEN "Idle" ELSE "Executing"

\* Lines 475-477.
errorType(error) ==
    IF Includes(ToLowerCase(error), "syntax") THEN "Syntax error" ELSE "Database error"

\* Variant of noResults: only a missing row set counts as empty.
noResults_missingOnly(queryResult) == queryResult.rows = Null

\* Line 483.
noResults(queryResult) ==
    queryResult.rows = Null \/ Len(Val(queryResult.rows)) = 0

\* Variants of afterExecuteQuery: the error check dropped and the emptiness
\* test not null-safe; the emptiness check dropped.
afterExecuteQuery_noErrorCheck(queryResult) ==
    IF queryResult.rows # Null /\ Len(Val(queryResult.rows)) = 0 THEN "Idle"
    ELSE "ExportPrompt"
afterExecuteQuery_noEmptyCheck(queryResult) ==
    IF Truthy(queryResult.error) THEN "Idle" ELSE "ExportPrompt"

\* Lines 473-498: where the turn goes once executeQuery has returned.
afterExecuteQuery(queryResult) ==
    IF Truthy(queryResult.error) THEN "Idle"
    ELSE IF noResults(queryResult) THEN "Idle"
    ELSE "ExportPrompt"

\* Line 499.
wantsExport(answer) == ToLowerCase(answer) = "y"

\* Lines 380-383: exportToCSV writes nothing for a missing or empty row set.
noDataToExport(rows) == rows = Null \/ Len(Val(rows)) = 0

\* Variant of afterGenerateResponse: a failed summary ends the session.
afterGenerateResponse_fatal(r) == IF Truthy(r.error) THEN "Closed" ELSE "Idle"

\* Lines 513-520: where the turn goes once generateResponse has returned.
afterGenerateResponse(r) == "Idle"

\* Lines 523-527: the catch block logs and prompts again.
afterException == "Idle"

\* ------------------------------------------------------------------ state
VARIABLES
    pc,           \* where the session is: Idle (question prompt open),
                  \* Generating, Executing, ExportPrompt, Exporting,
                  \* Summarizing, Closing (dbClient.end() pending), Closed
    prompt,       \* the question of the turn (callback parameter, line 438)
    sql,          \* the generated query of the turn (line 456)
    queryResult,  \* the result of the turn (line 471)
    conn,         \* the database connection: "open" or "closed"
    pending,      \* the remote calls awaited: "llm", "db", "csv", "end"
    calls,        \* calls started in this turn, per wrapper
    request,      \* the user message of the pending summary call
    files,        \* CSV files written in this turn
    out,          \* lines written to the console since the last question
    llmReply,     \* what the language model answered in the step just taken
    dbReply,      \* what the database answered in the step just taken
    exited        \* the operator has entered the exit signal

vars == <<pc, prompt, sql, queryResult, conn, pending, calls, request,
          files, out, llmReply, dbReply, exited>>

\* Lines 438 and 498: the two prompts of the readline interface.
QuestionText == "Ask a question (or type 'exit' to quit): "
ExportText == "Would you like to export these results to CSV? (y/n): "

NoCalls == [generateSQL |-> 0, executeQuery |-> 0, generateResponse |-> 0]

Init ==
    /\ pc = "Idle"
    /\ prompt = Null
    /\ sql = Null
    /\ queryResult = Null
    /\ conn = "open"
    /\ pending = {}
    /\ calls = NoCalls
    /\ request = Null
    /\ files = 0
    /\ out = <<QuestionText>>
    /\ llmReply = Null
    /\ dbReply = Null
    /\ exited = FALSE

\* The turn's locals go out of scope when promptUser() is called again.
BackToIdle ==
    /\ prompt' = Null
    /\ sql' = Null
    /\ queryResult' = Null

\* Entering state `to` with the turn's values p, s and qr, having printed
\* `lines`: the remote call of that state is started (lines 456, 471, 505).
Goto(to, p, s, qr, lines) ==
    /\ pc' = to
    /\ IF to = "Idle" THEN BackToIdle
       ELSE prompt' = p /\ sql' = s /\ queryResult' = qr
    /\ calls' =
         CASE to = "Generating" ->
                [calls EXCEPT !.generateSQL = calls.generateSQL + 1]
           [] to = "Executing" ->
                [calls EXCEPT !.executeQuery = calls.executeQuery + 1]
           [] to = "Summarizing" ->
                [calls EXCEPT !.generateResponse = calls.generateResponse + 1]
           [] OTHER -> calls
    /\ pending' =
         CASE to \in {"Generating", "Summarizing"} -> {"llm"}
           [] to = "Executing" -> {"db"}
           [] to = "Exporting" -> {"csv"}
           [] to = "Closing" -> {"end"}
           [] OTHER -> {}
    /\ request' =
         IF to = "Summarizing" THEN Some(userMessage(Val(p), s, qr)) ELSE Null
    /\ out' = out \o lines
           \o (CASE to = "Generating" -> <<"Generating SQL query...">>
                 [] to = "Executing" ->
                      <<"Generated SQL:", String(s), "Executing query...">>
                 [] to = "Summarizing" -> <<"Generating insights...">>
                 [] to = "ExportPrompt" -> <<ExportText>>
                 [] to = "Idle" -> <<QuestionText>>
                 [] OTHER -> <<>>)

\* --------------------------------------------------------------- actions
\* Lines 440-446: the exit signal; dbClient.end() is awaited.
ExitPrompt ==
    /\ pc = "Idle"
    /\ \E p \in Prompts :
         /\ isExit(p)
         /\ pc' = "Closing"
         /\ pending' = {"end"}
         /\ exited' = TRUE
         /\ calls' = NoCalls /\ request' = Null
         /\ files' = 0 /\ out' = <<>>
         /\ llmReply' = Null /\ dbReply' = Null
         /\ UNCHANGED <<prompt, sql, queryResult, conn>>

\* Lines 442-445 and 523-527: end() resolves, or rejects into the catch block.
EndReturns ==
    /\ pc = "Closing"
    /\ \/ /\ conn' = "closed"
          /\ pc' = "Closed"
          /\ pending' = {}
          /\ out' = out \o <<"Thank you for using Blockchain Database Chat CLI!">>
          /\ UNCHANGED <<prompt, sql, queryResult, calls, request, files, llmReply,
                         dbReply, exited>>
       \/ \E m \in EndErrors :
            /\ pc' = afterException
            /\ pending' = {}
            /\ out' = out \o <<"An error occurred: " \o m,
                                 "Error: " \o m \o StackTrace,
                                 QuestionText>>
            /\ UNCHANGED <<prompt, sql, queryResult, conn, calls, request, files,
                           llmReply, dbReply, exited>>

\* Lines 448-451: a blank question prompts again.
BlankPrompt ==
    /\ pc = "Idle"
    /\ \E p \in Prompts :
         /\ ~isExit(p)
         /\ isBlank(p)
         /\ out' = <<QuestionText>>
         /\ calls' = NoCalls /\ request' = Null /\ files' = 0
         /\ llmReply' = Null /\ dbReply' = Null
         /\ UNCHANGED <<pc, prompt, sql, queryResult, conn, pending, exited>>

\* Lines 453-456: a question starts a turn with the generateSQL call.
QuestionPrompt ==
    /\ pc = "Idle"
    /\ \E p \in Prompts :
         /\ ~isExit(p)
         /\ ~isBlank(p)
         /\ pc' = "Generating"
         /\ prompt' = Some(p)
         /\ sql' = Null
         /\ queryResult' = Null
         /\ calls' = [NoCalls EXCEPT !.generateSQL = 1]
         /\ pending' = {"llm"}
         /\ request' = Null
         /\ files' = 0
         /\ out' = <<"Generating SQL query...">>
         /\ llmReply' = Null /\ dbReply' = Null
         /\ UNCHANGED <<conn, exited>>

\* Lines 456-471: generateSQL returns; on success executeQuery is called.
GenerateSQLReturns ==
    /\ pc = "Generating"
    /\ \E resp \in GenerationResponses :
         LET r == generateSQL(resp)
         IN  /\ llmReply' = Some([call |-> "generateSQL", resp |-> resp])
             /\ dbReply' = Null
             /\ Goto(afterGenerateSQL(r), prompt, r.sql, Null,
                     IF Truthy(r.error)
                     THEN <<"Failed to generate SQL: " \o Val(r.error)>>
                     ELSE <<>>)
             /\ UNCHANGED <<conn, files, exited>>

\* Lines 471-498: executeQuery returns; its result is reported.
ExecuteQueryReturns ==
    /\ pc = "Executing"
    /\ \E resp \in DbResponses :
         LET r == executeQuery(resp)
         IN  /\ llmReply' = Null
             /\ dbReply' = Some(resp)
             /\ Goto(afterExecuteQuery(r), prompt, sql, Some(r),
                     IF Truthy(r.error)
                     THEN <<"Failed to execute query: " \o Val(r.error),
                            "Error type: " \o errorType(Val(r.error))>>
                     ELSE IF noResults(r)
                     THEN <<"The query returned no results.">>
                     ELSE <<"Query returned " \o rowCountText(r) \o " rows.",
                            "Results preview:",
                            formatResultTable(r.rows, columnNamesOf(r))>>)
             /\ UNCHANGED <<conn, files, exited>>

\* Lines 498-505 and 379-391: the operator answers the export prompt.
ExportAnswer ==
    /\ pc = "ExportPrompt"
    /\ \E answer \in Answers :
         /\ IF wantsExport(answer)
            THEN IF noDataToExport(Val(queryResult).rows)
                 THEN Goto("Summarizing", prompt, sql, queryResult,
                           <<"No data to export">>)
                 ELSE Goto("Exporting", prompt, sql, queryResult, <<>>)
            ELSE Goto("Summarizing", prompt, sql, queryResult, <<>>)
         /\ llmReply' = Null /\ dbReply' = Null
         /\ UNCHANGED <<conn, files, exited>>

\* Lines 393-398 and 504-505: writeRecords resolves or rejects.
WriteRecordsReturns ==
    /\ pc = "Exporting"
    /\ \/ /\ files' = files + 1
          /\ \E timestamp \in Timestamps :
               Goto("Summarizing", prompt, sql, queryResult,
                    <<"Results exported to query_results_" \o timestamp \o ".csv">>)
       \/ /\ files' = files
          /\ \E m \in {"EACCES: permission denied"} :
               Goto("Summarizing", prompt, sql, queryResult,
                    <<"Failed to export results: " \o m>>)
    /\ llmReply' = Null /\ dbReply' = Null
    /\ UNCHANGED <<conn, exited>>

\* Lines 505-520: generateResponse returns; the turn ends.
GenerateResponseReturns ==
    /\ pc = "Summarizing"
    /\ \E resp \in SummaryResponses :
         LET r == generateResponse(resp)
         IN  /\ llmReply' = Some([call |-> "generateResponse", resp |-> resp])
             /\ dbReply' = Null
             /\ Goto(afterGenerateResponse(r), prompt, sql, queryResult,
                     IF Truthy(r.error)
                     THEN <<"Failed to generate insights: " \o Val(r.error)>>
                     ELSE <<"Insights", String(r.response)>>)
             /\ UNCHANGED <<conn, files, exited>>

Next ==
    \/ ExitPrompt
    \/ EndReturns
    \/ BlankPrompt
    \/ QuestionPrompt
    \/ GenerateSQLReturns
    \/ ExecuteQueryReturns
    \/ ExportAnswer
    \/ WriteRecordsReturns
    \/ GenerateResponseReturns

Spec == Init /\ [][Next]_vars

\* The steps other than the operator's question: a pending remote call
\* returns, the export prompt is answered.  At most one of them is enabled in
\* any state, each in its own state of pc.
Progress ==
    \/ GenerateSQLReturns
    \/ ExecuteQueryReturns
    \/ ExportAnswer
    \/ WriteRecordsReturns
    \/ GenerateResponseReturns
    \/ EndReturns

\* Every remote call eventually returns and the operator eventually answers
\* the export prompt.
FairSpec == Spec /\ WF_vars(Progress)

\* ---------------------------------------------------------------- claims
OutHas(line) == \E i \in 1..Len(out) : out[i] = line
LastOut == out[Len(out)]

GenerationReply == llmReply # Null /\ Val(llmReply).call = "generateSQL"
SummaryReply == llmReply # Null /\ Val(llmReply).call = "generateResponse"

\* C1: whenever the model output holds a fence marker, the query handed to
\* executeQuery holds none.
C1_SanitizedQueryHasNoFence ==
    (/\ pc = "Executing"
     /\ GenerationReply
     /\ Val(llmReply).resp.kind = "ok"
     /\ Val(llmReply).resp.content # Null
     /\ Includes(Val(Val(llmReply).resp.content), Fence))
      => ~Includes(Val(sql), Fence)

\* C4: a remote error or a response without content (missing, null or empty)
\* makes generateSQL fail with a message that includes the upstream text, and
\* the turn is back at the question prompt with no query issued.
NoContent(resp) ==
    \/ resp.kind \in {"throw", "nochoice", "nocontent"}
    \/ resp.kind = "ok" /\ (resp.content = Null \/ resp.content = Some(""))

C4_NoContentFailsGeneration ==
    (GenerationReply /\ NoContent(Val(llmReply).resp))
      => /\ pc = "Idle"
         /\ calls.executeQuery = 0
         /\ \E i \in 1..Len(out) :
              /\ StartsWith(out[i], "Failed to generate SQL: Error generating SQL: ")
              /\ Val(llmReply).resp.kind = "throw"
                    => Includes(out[i], Val(llmReply).resp.message)

\* C2: after a query that succeeded with zero rows the turn is back at the
\* question prompt: no export prompt, no summary call, no file.
ZeroRows == dbReply # Null /\ Val(dbReply).kind = "rows" /\ Len(Val(dbReply).rows) = 0

C2_ZeroRowsSkipSummary ==
    ZeroRows
      => /\ pc = "Idle"
         /\ calls.generateResponse = 0
         /\ files = 0
         /\ ~OutHas(ExportText)
         /\ ~OutHas("Generating insights...")

C2_Witness == ZeroRows /\ pc = "Idle" /\ OutHas("The query returned no results.")

\* C3: the remote calls of a turn never overlap and come in order: a query is
\* pending only in Executing, which follows a successful generateSQL; the
\* language model is awaited only in Generating and Summarizing; Summarizing
\* follows the completed executeQuery.
C3_CallsAreOrdered ==
    /\ Cardinality(pending) <= 1
    /\ "db" \in pending <=> pc = "Executing"
    /\ "llm" \in pending <=> pc \in {"Generating", "Summarizing"}
    /\ pc = "Executing"
         => /\ GenerationReply
            /\ generateSQL(Val(llmReply).resp).error = Null
            /\ sql = generateSQL(Val(llmReply).resp).sql
            /\ sql # Null
            /\ calls = [NoCalls EXCEPT !.generateSQL = 1, !.executeQuery = 1]
    /\ pc = "Summarizing"
         => /\ queryResult # Null
            /\ Val(queryResult).error = Null
            /\ sql # Null
            /\ calls.generateSQL = 1 /\ calls.executeQuery = 1
    /\ pc = "Generating" => calls.executeQuery = 0 /\ calls.generateResponse = 0

C3_Witness ==
    /\ pc = "Summarizing"
    /\ pending = {"llm"}
    /\ calls = [generateSQL |-> 1, executeQuery |-> 1, generateResponse |-> 1]

\* C5: a failed execution is shown as "Syntax error" exactly when its message
\* holds "syntax" in any letter case, as "Database error" otherwise, and the
\* turn is back at the question prompt either way.
MentionsSyntax(message) ==
    \E i \in 1..(Len(message) - 5) : ToLowerCase(SubSeq(message, i, i + 5)) = "syntax"

ExecutionFailed == dbReply # Null /\ Val(dbReply).kind = "throw"

C5_ErrorClassification ==
    ExecutionFailed
      => /\ OutHas("Error type: Syntax error") <=> MentionsSyntax(Val(dbReply).message)
         /\ OutHas("Error type: Database error") <=> ~MentionsSyntax(Val(dbReply).message)
         /\ pc = "Idle"

\* C6: after a failed execution the turn is back at the question prompt with
\* neither the export prompt nor the summary call reached.
C6_ExecutionFailureAborts ==
    ExecutionFailed
      => /\ pc = "Idle"
         /\ LastOut = QuestionText
         /\ calls.generateResponse = 0
         /\ ~OutHas(ExportText)
         /\ pending = {}

C6_Witness ==
    /\ ExecutionFailed
    /\ pc = "Idle"
    /\ OutHas("Failed to execute query: " \o Val(dbReply).message)

\* C7: when generateResponse returns an error, the row count and the result
\* table were printed before the summary call and the turn ends at the
\* question prompt.
SummaryFailed == SummaryReply /\ Truthy(generateResponse(Val(llmReply).resp).error)

C7_SummaryFailureNonFatal ==
    SummaryFailed
      => /\ pc = "Idle"
         /\ LastOut = QuestionText
         /\ \E i, j \in 1..Len(out) :
              /\ i + 2 < j
              /\ StartsWith(out[i], "Query returned ")
              /\ out[i + 1] = "Results preview:"
              /\ out[i + 2] # "No results"
              /\ out[j] = "Generating insights..."
              /\ j + 1 < Len(out)
              /\ StartsWith(out[j + 1], "Failed to generate insights: ")

C7_Witness == SummaryFailed /\ pc = "Idle" /\ OutHas("Results preview:")

\* C8: a turn started by a question eventually is back at the question
\* prompt, given that every remote call returns and the export prompt is
\* answered.
C8_TurnReturnsToIdle ==
    (pc \in {"Generating", "Executing", "ExportPrompt", "Exporting", "Summarizing"})
      ~> (pc = "Idle")

C8_Witness ==
    /\ pc = "Idle"
    /\ calls = [generateSQL |-> 1, executeQuery |-> 1, generateResponse |-> 1]
    /\ LastOut = QuestionText

\* C9: within one turn each of generateSQL, executeQuery and generateResponse
\* is called at most once, whatever fails.
C9_NoRetry ==
    /\ calls.generateSQL <= 1
    /\ calls.executeQuery <= 1
    /\ calls.generateResponse <= 1

C9_Witness ==
    /\ pc = "Idle"
    /\ GenerationReply
    /\ Truthy(generateSQL(Val(llmReply).resp).error)
    /\ calls = [NoCalls EXCEPT !.generateSQL = 1]

\* C10: a response without a row set ({rowCount}) makes executeQuery return
\* the affected-row count and a status message with no error, and the turn
\* ends without a summary call.
CommandReply == dbReply # Null /\ Val(dbReply).kind = "command"

C10_MutationNotSummarized ==
    CommandReply
      => LET r == executeQuery(Val(dbReply))
         IN  /\ r.error = Null
             /\ "affectedRows" \in DOMAIN r /\ r.affectedRows = Val(dbReply).rowCount
             /\ "message" \in DOMAIN r
             /\ Includes(r.message, TemplateText(Val(dbReply).rowCount))
             /\ "columnNames" \notin DOMAIN r
             /\ pc = "Idle"
             /\ calls.generateResponse = 0
             /\ request = Null
             /\ ~OutHas("Generating insights...")

C10_Witness ==
    /\ CommandReply
    /\ pc = "Idle"
    /\ Val(dbReply).rowCount = NumberValue(2)
    /\ OutHas("The query returned no results.")

\* The JSON text of rows i..k, as the summary prompt holds them.
RECURSIVE RowsText(_, _, _)
RowsText(rows, i, k) ==
    IF i > k THEN ""
    ELSE "  " \o JSONObject(rows[i]) \o (IF i < k THEN ",\n" ELSE "")
           \o RowsText(rows, i + 1, k)

RECURSIVE NamesText(_, _)
NamesText(names, i) ==
    IF i > Len(names) THEN ""
    ELSE names[i] \o (IF i < Len(names) THEN ", " ELSE "") \o NamesText(names, i + 1)

HasRows ==
    /\ queryResult # Null
    /\ Val(queryResult).error = Null
    /\ Val(queryResult).rows # Null
    /\ Len(Val(Val(queryResult).rows)) >= 1

\* The message part of C11: the count, the names and the first rows.
C11_MessageEmbedsFirstRows ==
    (pc = "Summarizing" /\ HasRows)
      => LET r == Val(queryResult)
             rows == Val(r.rows)
             n == Len(rows)
             k == IF n < 5 THEN n ELSE 5
         IN  /\ request # Null
             /\ Includes(Val(request),
                         "\nNumber of rows returned: " \o ToString(n) \o "\n")
             /\ Includes(Val(request),
                         "\nColumn names: " \o NamesText(r.columnNames, 1) \o "\n")
             /\ Includes(Val(request),
                         "(first 5 rows):\n[\n" \o RowsText(rows, 1, k)
                           \o "\n]\n\nPlease provide")

\* The result part of C11: the QueryResult's rowCount is the number of rows.
C11_RowCountIsNumberOfRows ==
    HasRows
      => Val(queryResult).rowCount = NumberValue(Len(Val(Val(queryResult).rows)))

\* C11: for a result of n >= 1 rows the user message of the summary call
\* holds the row count n, the column names in result order and exactly the
\* first min(n, 5) rows in their order, and the result's rowCount is n.
C11_SummaryEmbedsFirstRows ==
    C11_MessageEmbedsFirstRows /\ C11_RowCountIsNumberOfRows

\* C12: once the operator has entered the exit signal the session is over:
\* the connection is being closed or is closed, the question prompt is not
\* opened again and no further generateSQL, executeQuery or generateResponse
\* call is made, also when closing the connection raises an error.
C12_ExitEndsSession ==
    exited
      => /\ pc \in {"Closing", "Closed"}
         /\ pc = "Closed" => conn = "closed"
         /\ calls = NoCalls
         /\ ~OutHas(QuestionText)
====
